---------------------------- MODULE Spec2Model ----------------------------
(***************************************************************************)
(* A model of the vccgallery server (src/server.js): the caption chain of  *)
(* processMediaFileForModal, the cover choice of findFolderCover, and the  *)
(* GET / handler with its concurrent directory reads.                      *)
(*                                                                         *)
(* JavaScript strings are sequences of one-character strings, so that the  *)
(* string functions of the code (extname, toLowerCase, split, join, trim,  *)
(* startsWith, localeCompare) are computed character by character.         *)
(* An optional value (undefined / null) is a sequence of length 0 or 1.    *)
(***************************************************************************)
EXTENDS Integers, Sequences, FiniteSets, TLC

(***************************************************************************)
(* Characters and the JavaScript / Node string functions the code calls.   *)
(***************************************************************************)
LowerLetters ==
  << "a", "b", "c", "d", "e", "f", "g", "h", "i", "j", "k", "l", "m",
     "n", "o", "p", "q", "r", "s", "t", "u", "v", "w", "x", "y", "z" >>

UpperLetters ==
  << "A", "B", "C", "D", "E", "F", "G", "H", "I", "J", "K", "L", "M",
     "N", "O", "P", "Q", "R", "S", "T", "U", "V", "W", "X", "Y", "Z" >>

DigitChars == << "0", "1", "2", "3", "4", "5", "6", "7", "8", "9" >>

\* The punctuation of the model's alphabet, in the order of the collation
\* String.prototype.localeCompare uses (white space and punctuation sort
\* before digits, digits before letters).
PunctChars == << " ", "_", "-", ",", ".", "/" >>

IndexOf(seq, c) == CHOOSE i \in 1..Len(seq) : seq[i] = c

Occurs(seq, c) == \E i \in 1..Len(seq) : seq[i] = c

ToLowerChar(c) ==
  IF Occurs(UpperLetters, c) THEN LowerLetters[IndexOf(UpperLetters, c)] ELSE c

\* String.prototype.toLowerCase
toLowerCase(s) == [i \in 1..Len(s) |-> ToLowerChar(s[i])]

IsSpace(c) == c = " "

RECURSIVE trimStart(_)
trimStart(s) ==
  IF s = << >> THEN s
  ELSE IF IsSpace(Head(s)) THEN trimStart(Tail(s)) ELSE s

RECURSIVE trimEnd(_)
trimEnd(s) ==
  IF s = << >> THEN s
  ELSE IF IsSpace(s[Len(s)]) THEN trimEnd(SubSeq(s, 1, Len(s) - 1)) ELSE s

\* String.prototype.trim
trim(s) == trimEnd(trimStart(s))

\* String.prototype.startsWith
startsWith(s, prefix) ==
  /\ Len(prefix) <= Len(s)
  /\ SubSeq(s, 1, Len(prefix)) = prefix

\* The separator class of the regular expression /[-_]+/
IsSep(c) == c \in {"-", "_"}

RECURSIVE DropSeps(_)
DropSeps(s) ==
  IF s = << >> THEN s
  ELSE IF IsSep(Head(s)) THEN DropSeps(Tail(s)) ELSE s

\* s.split(/[-_]+/): the pieces between the maximal runs of - and _ ; a run
\* at either end leaves an empty piece there.
RECURSIVE SplitRec(_, _)
SplitRec(s, cur) ==
  IF s = << >> THEN << cur >>
  ELSE IF IsSep(Head(s)) THEN << cur >> \o SplitRec(DropSeps(s), << >>)
  ELSE SplitRec(Tail(s), Append(cur, Head(s)))

splitSeps(s) == SplitRec(s, << >>)

\* Array.prototype.join
RECURSIVE join(_, _)
join(parts, sep) ==
  IF parts = << >> THEN << >>
  ELSE IF Len(parts) = 1 THEN parts[1]
  ELSE parts[1] \o sep \o join(Tail(parts), sep)

\* x.split(/[-_]+/).join(" ").trim(), the filename and folder-name caption
nameCaption(s) == trim(join(splitSeps(s), << " " >>))

\* s.split(path.sep): the segments between the "/" characters
RECURSIVE SplitPathRec(_, _)
SplitPathRec(s, cur) ==
  IF s = << >> THEN << cur >>
  ELSE IF Head(s) = "/" THEN << cur >> \o SplitPathRec(Tail(s), << >>)
  ELSE SplitPathRec(Tail(s), Append(cur, Head(s)))

splitPath(s) == SplitPathRec(s, << >>)

\* path.basename for the relative paths of the model (no trailing slash)
basename(p) == LET segs == splitPath(p) IN segs[Len(segs)]

LastDot(b) ==
  IF Occurs(b, ".") THEN CHOOSE i \in 1..Len(b) :
                            /\ b[i] = "."
                            /\ \A j \in (i + 1)..Len(b) : b[j] # "."
  ELSE 0

\* path.extname: from the last "." of the last path portion to its end; empty
\* when there is no ".", when the only "." is the first character, and for "..".
extname(p) ==
  LET b == basename(p)
      d == LastDot(b)
  IN  IF d <= 1 \/ b = << ".", "." >> THEN << >> ELSE SubSeq(b, d, Len(b))

\* path.parse(p).name: the last path portion without its extension
parseName(p) ==
  LET b == basename(p) IN SubSeq(b, 1, Len(b) - Len(extname(p)))

\* path.join of a relative directory path and an entry name
pathJoin(dir, name) == IF dir = << >> THEN name ELSE dir \o << "/" >> \o name

(***************************************************************************)
(* String.prototype.localeCompare: a primary comparison that ignores       *)
(* letter case, then, between strings equal at that level, lower case      *)
(* before upper case at the first difference.                              *)
(***************************************************************************)
PrimaryWeight(c) ==
  IF Occurs(PunctChars, c) THEN IndexOf(PunctChars, c)
  ELSE IF Occurs(DigitChars, c) THEN 10 + IndexOf(DigitChars, c)
  ELSE 30 + IndexOf(LowerLetters, ToLowerChar(c))

CaseWeight(c) == IF Occurs(UpperLetters, c) THEN 1 ELSE 0

RECURSIVE CompareBy(_, _, _)
CompareBy(W(_), a, b) ==
  IF a = << >> /\ b = << >> THEN 0
  ELSE IF a = << >> THEN -1
  ELSE IF b = << >> THEN 1
  ELSE IF W(Head(a)) < W(Head(b)) THEN -1
  ELSE IF W(Head(a)) > W(Head(b)) THEN 1
  ELSE CompareBy(W, Tail(a), Tail(b))

localeCompare(a, b) ==
  LET p == CompareBy(PrimaryWeight, a, b)
  IN  IF p # 0 THEN p ELSE CompareBy(CaseWeight, a, b)

(***************************************************************************)
(* Date.prototype.toLocaleDateString("en-US", {year: "numeric",            *)
(* month: "long", day: "numeric"}) of new Date(seconds * 1000), in a       *)
(* process whose local time is UTC + offsetMinutes.                        *)
(***************************************************************************)
MonthNames ==
  << << "J", "a", "n", "u", "a", "r", "y" >>,
     << "F", "e", "b", "r", "u", "a", "r", "y" >>,
     << "M", "a", "r", "c", "h" >>,
     << "A", "p", "r", "i", "l" >>,
     << "M", "a", "y" >>,
     << "J", "u", "n", "e" >>,
     << "J", "u", "l", "y" >>,
     << "A", "u", "g", "u", "s", "t" >>,
     << "S", "e", "p", "t", "e", "m", "b", "e", "r" >>,
     << "O", "c", "t", "o", "b", "e", "r" >>,
     << "N", "o", "v", "e", "m", "b", "e", "r" >>,
     << "D", "e", "c", "e", "m", "b", "e", "r" >> >>

RECURSIVE Decimal(_)
Decimal(n) ==
  IF n < 10 THEN << DigitChars[n + 1] >>
  ELSE Decimal(n \div 10) \o << DigitChars[(n % 10) + 1] >>

\* The civil date of a day number counted from 1970-01-01 (proleptic
\* Gregorian calendar), as [year, month, day].
CivilFromDays(days) ==
  LET z   == days + 719468
      era == z \div 146097
      doe == z - era * 146097
      yoe == (doe - doe \div 1460 + doe \div 36524 - doe \div 146096) \div 365
      doy == doe - (365 * yoe + yoe \div 4 - yoe \div 100)
      mp  == (5 * doy + 2) \div 153
      d   == doy - (153 * mp + 2) \div 5 + 1
      m   == IF mp < 10 THEN mp + 3 ELSE mp - 9
      y   == yoe + era * 400 + (IF m <= 2 THEN 1 ELSE 0)
  IN  [year |-> y, month |-> m, day |-> d]

toLocaleDateString(seconds, offsetMinutes) ==
  LET c == CivilFromDays((seconds + offsetMinutes * 60) \div 86400)
  IN  MonthNames[c.month] \o << " " >> \o Decimal(c.day) \o << ",", " " >>
        \o Decimal(c.year)


(***************************************************************************)
(* Values of the model: optional values, the supported extensions.         *)
(***************************************************************************)
\* undefined / null
Null == << >>

Some(v) == << v >>

IsNull(o) == o = << >>

ValueOf(o) == o[1]

\* JavaScript truthiness of an optional string: defined and not empty
TruthyStr(o) == o # Null /\ ValueOf(o) # << >>

\* JavaScript truthiness of an optional number: defined and not 0
TruthyNum(o) == o # Null /\ ValueOf(o) # 0

\* [".jpg", ".jpeg", ".png", ".gif", ".mp4", ".mov", ".webm", ".webp"]
MediaExts ==
  { << ".", "j", "p", "g" >>, << ".", "j", "p", "e", "g" >>,
    << ".", "p", "n", "g" >>, << ".", "g", "i", "f" >>,
    << ".", "m", "p", "4" >>, << ".", "m", "o", "v" >>,
    << ".", "w", "e", "b", "m" >>, << ".", "w", "e", "b", "p" >> }

\* [".jpg", ".jpeg"]
JpegExts == { << ".", "j", "p", "g" >>, << ".", "j", "p", "e", "g" >> }

\* [".mp4", ".mov", ".webm"]
VideoExts ==
  { << ".", "m", "p", "4" >>, << ".", "m", "o", "v" >>,
    << ".", "w", "e", "b", "m" >> }

\* The caption literal "Video"
VideoCaption == << "V", "i", "d", "e", "o" >>

\* const captionTags = ["ImageDescription", "Title", "ObjectName"]
captionTags == << "ImageDescription", "Title", "ObjectName" >>

\* isMediaName comparing the extension as written, without toLowerCase
isMediaName_CaseSensitive(name) == extname(name) \in MediaExts

\* The filter predicate of the media lists: the lowercased extension is supported
isMediaName(name) == toLowerCase(extname(name)) \in MediaExts

(***************************************************************************)
(* The state.  The file system is the environment: it is chosen by Init    *)
(* and no action changes it (the server only reads).                       *)
(***************************************************************************)
VARIABLES
  ls,          \* directory path -> the entries readdir returns, in its order
  exif,        \* file path -> [ok, tags]: what reading its metadata gives
  unreadable,  \* the directories whose readdir fails
  tzOffset,    \* the local time zone of the process, minutes east of UTC
  probe,       \* the last direct call of a helper: [op, arg, ret]
  exifReads,   \* the file paths getExifData has been called on
  readdirLog,  \* the readdir calls made so far, in order: [by, dir]
  request,     \* the request being handled: [route] or [route, name]
  pc,          \* where the handler of the request is
  items,       \* GET /: the results of galleryItemsPromises, null while pending
  pendingCovers,  \* GET /: the root entries whose cover readdir is outstanding
  galleryItems,   \* GET /: the sorted gallery items
  walkPending,    \* GET /: the directories whose readdir of the walk is outstanding
  microtasks,     \* the queue of promise continuations, first in first out
  allMediaFilesForModal,  \* GET /: the flattened list the walk pushes to
  response,    \* what the handler has sent: [status, ...]
  statOutcome, \* GET /:name: what fs.promises.stat gave, "none" before
  previous,    \* the request handled before this one, with its response
  outcomes,    \* the calls of res.send and next() the handler has made, in order
  client       \* the script of the page in the browser: [currentIndex, display, shown]

fsVars == << ls, exif, unreadable, tzOffset >>

\* The state of the request handlers
handlerVars ==
  << request, pc, items, pendingCovers, galleryItems, walkPending, microtasks,
     allMediaFilesForModal, response, statOutcome, previous, outcomes, client >>

vars ==
  << ls, exif, unreadable, tzOffset, probe, exifReads, readdirLog, request, pc,
     items, pendingCovers, galleryItems, walkPending, microtasks,
     allMediaFilesForModal, response, statOutcome, previous, outcomes, client >>

(***************************************************************************)
(* getExifData: the tags of the file, or null when reading or parsing      *)
(* throws.                                                                 *)
(***************************************************************************)
\* getExifData handing back the text of the error as a description
getExifData_ErrorText(filePath) ==
  IF exif[filePath].ok THEN Some(exif[filePath].tags)
  ELSE Some([ImageDescription |-> Some(<< "E", "r", "r" >>), Title |-> Some(<< >>),
             ObjectName |-> Some(<< >>), DateTimeOriginal |-> Some(0), Model |-> Some(<< >>)])

getExifData(filePath) ==
  IF exif[filePath].ok THEN Some(exif[filePath].tags) ELSE Null

(***************************************************************************)
(* processMediaFileForModal                                                *)
(***************************************************************************)
\* for (const tag of captionTags) { if (exifData[tag]) { caption =
\* exifData[tag].trim(); break; } } starting from caption = ""
RECURSIVE captionFromTags(_, _)
captionFromTags(tags, names) ==
  IF names = << >> THEN << >>
  ELSE IF TruthyStr(tags[Head(names)]) THEN trim(ValueOf(tags[Head(names)]))
  ELSE captionFromTags(tags, Tail(names))

\* if (!caption) { DateTimeOriginal, else Model }
captionFromExif(tags) ==
  LET c == captionFromTags(tags, captionTags)
  IN  IF c # << >> THEN c
      ELSE IF TruthyNum(tags.DateTimeOriginal)
        THEN toLocaleDateString(ValueOf(tags.DateTimeOriginal), tzOffset)
      ELSE IF TruthyStr(tags.Model) THEN ValueOf(tags.Model)
      ELSE << >>

\* captionFallback without the video branch: every file gets a filename caption
captionFallback_NoVideoBranch(ext, relativePath) ==
  nameCaption(parseName(relativePath))

\* if (!caption) { "Video" for a video, else the caption of the file name }
captionFallback(ext, relativePath) ==
  IF ext \in VideoExts THEN VideoCaption
  ELSE nameCaption(parseName(relativePath))

processMediaFileForModal(relativePath) ==
  LET ext      == toLowerCase(extname(relativePath))
      exifData == IF ext \in JpegExts THEN getExifData(relativePath) ELSE Null
      c        == IF IsNull(exifData) THEN << >>
                  ELSE captionFromExif(ValueOf(exifData))
      caption  == IF c = << >> THEN captionFallback(ext, relativePath) ELSE c
  IN  [file |-> relativePath, caption |-> caption, ext |-> ext]

\* The calls of getExifData that processMediaFileForModal(relativePath) makes
exifReadsOfFile(relativePath) ==
  IF toLowerCase(extname(relativePath)) \in JpegExts THEN {relativePath} ELSE {}

(***************************************************************************)
(* getMediaFilesFromDirectory: the names readdir returns (of entries of    *)
(* any kind: it reads names only) that have a supported extension, or []   *)
(* when readdir fails.                                                     *)
(***************************************************************************)
entryNames(entries) == [i \in 1..Len(entries) |-> entries[i].name]

getMediaFilesFromDirectory(directoryPath) ==
  IF directoryPath \in unreadable THEN << >>
  ELSE SelectSeq(entryNames(ls[directoryPath]), isMediaName)

(***************************************************************************)
(* findFolderCover                                                         *)
(***************************************************************************)
CoverPrefix == << "c", "o", "v", "e", "r" >>

\* path.parse(file).name.toLowerCase().startsWith("cover")
isCoverName(file) == startsWith(toLowerCase(parseName(file)), CoverPrefix)

\* The cover file name, or null: potentialCovers[0], else mediaFiles[0]
coverFileNameOf(mediaFiles) ==
  LET potentialCovers == SelectSeq(mediaFiles, isCoverName)
  IN  IF Len(potentialCovers) > 0 THEN Some(potentialCovers[1])
      ELSE IF Len(mediaFiles) > 0 THEN Some(mediaFiles[1])
      ELSE Null

\* folderRelativePath.split(path.sep).pop().split(/[-_]+/).join(" ").trim()
folderCaption(folderRelativePath) == nameCaption(basename(folderRelativePath))

\* coverCaption reading the metadata of a cover of any extension
coverCaption_AnyExtension(folderRelativePath, coverFileName) ==
  LET exifData == getExifData(pathJoin(folderRelativePath, coverFileName))
  IN  IF ~IsNull(exifData) /\ TruthyStr(ValueOf(exifData).ImageDescription)
      THEN trim(ValueOf(ValueOf(exifData).ImageDescription))
      ELSE folderCaption(folderRelativePath)

\* The caption of a folder whose cover is coverFileName
coverCaption(folderRelativePath, coverFileName) ==
  LET coverFilePath == pathJoin(folderRelativePath, coverFileName)
      exifData == IF toLowerCase(extname(coverFileName)) \in JpegExts
                  THEN getExifData(coverFilePath) ELSE Null
  IN  IF ~IsNull(exifData) /\ TruthyStr(ValueOf(exifData).ImageDescription)
      THEN trim(ValueOf(ValueOf(exifData).ImageDescription))
      ELSE folderCaption(folderRelativePath)

findFolderCover(folderRelativePath) ==
  LET mediaFiles == getMediaFilesFromDirectory(folderRelativePath)
      coverFileName == coverFileNameOf(mediaFiles)
  IN  IF IsNull(coverFileName) THEN Null
      ELSE Some([url |-> << "/" >> \o pathJoin(folderRelativePath,
                                               ValueOf(coverFileName)),
                 caption |-> coverCaption(folderRelativePath,
                                          ValueOf(coverFileName)),
                 ext |-> toLowerCase(extname(ValueOf(coverFileName)))])

\* The calls of getExifData that findFolderCover(folderRelativePath) makes
exifReadsOfCover(folderRelativePath) ==
  LET coverFileName ==
        coverFileNameOf(getMediaFilesFromDirectory(folderRelativePath))
  IN  IF ~IsNull(coverFileName)
         /\ toLowerCase(extname(ValueOf(coverFileName))) \in JpegExts
      THEN {pathJoin(folderRelativePath, ValueOf(coverFileName))}
      ELSE {}

\* "/folder_icon.png"
FolderIcon == << "/", "f", "o", "l", "d", "e", "r", "_", "i", "c", "o", "n", ".", "p", "n", "g" >>

\* The gallery item of a directory entry of the root (GET /)
folderItem(entryName) ==
  LET coverData == findFolderCover(entryName)
  IN  [type |-> "folder",
       name |-> entryName,
       caption |-> IF ~IsNull(coverData) THEN ValueOf(coverData).caption
                   ELSE folderCaption(entryName),
       thumbnailUrl |-> IF ~IsNull(coverData) THEN ValueOf(coverData).url
                        ELSE FolderIcon,
       link |-> << "/" >> \o entryName]


(***************************************************************************)
(* Direct calls of processMediaFileForModal on one file, over the file     *)
(* names and metadata contents below.                                      *)
(***************************************************************************)
\* File names with a supported extension: plain, upper case, with hyphens and
\* underscores, made only of hyphens and underscores, videos.
CaptionNames ==
  { << "m", "y", "-", "p", "h", "o", "t", "o", ".", "j", "p", "g" >>,
    << "A", ".", "J", "P", "G" >>,
    << "b", "_", "c", ".", "j", "p", "e", "g" >>,
    << "-", "_", ".", "j", "p", "g" >>,
    << "x", ".", "p", "n", "g" >>,
    << "_", ".", "p", "n", "g" >>,
    << "b", "e", "a", "c", "h", "_", "s", "u", "n", "s", "e", "t", ".", "m", "p", "4" >>,
    << "c", ".", "M", "O", "V" >>,
    << "a", "-", "b", ".", "w", "e", "b", "p" >> }

\* The values of each tag: absent, empty, blank, text with spaces around it
ImageDescriptionValues == { Null, Some(<< >>), Some(<< " ", " " >>), Some(<< " ", "D", "e", "s", "c", " " >>) }

TitleValues == { Null, Some(<< " " >>), Some(<< "T", "i", "t", "l", "e" >>) }

ObjectNameValues == { Null, Some(<< >>), Some(<< "O", "b", "j" >>) }

\* Seconds since the epoch: absent, 0, 2024-03-15T00:00:00Z
DateTimeOriginalValues == { Null, Some(0), Some(1710460800) }

ModelValues == { Null, Some(<< " " >>), Some(<< "C", "a", "m" >>) }

TagsValues ==
  [ImageDescription : ImageDescriptionValues, Title : TitleValues,
   ObjectName : ObjectNameValues, DateTimeOriginal : DateTimeOriginalValues,
   Model : ModelValues]

NoTags ==
  [ImageDescription |-> Null, Title |-> Null, ObjectName |-> Null,
   DateTimeOriginal |-> Null, Model |-> Null]

\* What reading the metadata of one file gives: it throws, or it gives tags
ExifValues == { [ok |-> FALSE, tags |-> NoTags] } \cup [ok : {TRUE}, tags : TagsValues]

\* Minutes east of UTC
TimeZones == { -480, 0, 540 }

NoProbe == [op |-> "none"]

NoRequest == [route |-> "none"]

NoResponse == [status |-> "none"]

NoPrevious == [request |-> NoRequest, response |-> NoResponse]

\* No page is loaded in the browser
\* (last and from record the last handler the script ran and the value
\* currentIndex had before it)
NoClient == [loaded |-> FALSE, currentIndex |-> 0, display |-> "",
             shown |-> << >>, last |-> "none", from |-> 0]

\* No request is being handled
HandlerIdle ==
  /\ request = NoRequest
  /\ pc = "idle"
  /\ items = << >>
  /\ pendingCovers = {}
  /\ galleryItems = << >>
  /\ walkPending = {}
  /\ microtasks = << >>
  /\ allMediaFilesForModal = << >>
  /\ response = NoResponse
  /\ statOutcome = "none"
  /\ outcomes = << >>
  /\ client = NoClient

FileEntry(name) == [name |-> name, kind |-> "file"]

DirEntry(name) == [name |-> name, kind |-> "dir"]

InitCaption ==
  /\ \E n \in CaptionNames, e \in ExifValues :
       /\ ls = (<< >> :> << FileEntry(n) >>)
       /\ exif = (n :> e)
  /\ unreadable = {}
  /\ tzOffset \in TimeZones
  /\ probe = NoProbe
  /\ exifReads = {}
  /\ readdirLog = << >>
  /\ HandlerIdle
  /\ previous = NoPrevious

\* processMediaFileForModal called on the file of the root
CaptionCall ==
  /\ probe = NoProbe
  /\ \E i \in 1..Len(ls[<< >>]) :
       LET relativePath == ls[<< >>][i].name
       IN  /\ ls[<< >>][i].kind = "file"
           /\ isMediaName(relativePath)
           /\ probe' = [op |-> "processMediaFileForModal", arg |-> relativePath,
                        ret |-> processMediaFileForModal(relativePath)]
           /\ exifReads' = exifReads \cup exifReadsOfFile(relativePath)
  /\ UNCHANGED << fsVars, readdirLog, handlerVars >>

SpecCaption == InitCaption /\ [][CaptionCall]_vars


(***************************************************************************)
(* Properties of the caption chain, checked under SpecCaption.             *)
(***************************************************************************)
ProbedFile == probe.op = "processMediaFileForModal"

ProbedExt == toLowerCase(extname(probe.arg))

\* The probed file is a JPEG whose metadata was read without an error
ProbedParsedJpeg ==
  ProbedFile /\ ProbedExt \in JpegExts /\ exif[probe.arg].ok

NonBlankStr(o) == o # Null /\ trim(ValueOf(o)) # << >>

\* The five caption sources, in the order of the chain
SourcePresent(tags, k) ==
  CASE k = 1 -> NonBlankStr(tags.ImageDescription)
    [] k = 2 -> NonBlankStr(tags.Title)
    [] k = 3 -> NonBlankStr(tags.ObjectName)
    [] k = 4 -> TruthyNum(tags.DateTimeOriginal)
    [] k = 5 -> NonBlankStr(tags.Model)

SourceText(tags, k) ==
  CASE k = 1 -> trim(ValueOf(tags.ImageDescription))
    [] k = 2 -> trim(ValueOf(tags.Title))
    [] k = 3 -> trim(ValueOf(tags.ObjectName))
    [] k = 4 -> toLocaleDateString(ValueOf(tags.DateTimeOriginal), tzOffset)
    [] k = 5 -> ValueOf(tags.Model)

FirstSource(tags, k, n) ==
  /\ k \in 1..n
  /\ SourcePresent(tags, k)
  /\ \A j \in 1..(k - 1) : ~SourcePresent(tags, j)

\* C1: for a JPEG whose metadata parses, the caption is the text of the first
\* source, in the order ImageDescription, Title, ObjectName, DateTimeOriginal
\* (as a long date), Model, that is present with a non-blank value; a later
\* source is never used when an earlier one is present and non-blank.
C1_PrecedenceOfSources ==
  ProbedParsedJpeg =>
    \A k \in 1..5 :
      FirstSource(exif[probe.arg].tags, k, 5) =>
        probe.ret.caption = SourceText(exif[probe.arg].tags, k)

\* C2: the caption processMediaFileForModal returns is never the empty string.
C2_CaptionNeverEmpty == ProbedFile => probe.ret.caption # << >>

\* C3: among ImageDescription, Title, ObjectName the caption is the trimmed
\* value of the first tag whose trimmed value is not empty; a blank tag is
\* skipped and the next tag is still considered.
C3_BlankTagSkipped ==
  ProbedParsedJpeg =>
    \A k \in 1..3 :
      FirstSource(exif[probe.arg].tags, k, 3) =>
        probe.ret.caption = SourceText(exif[probe.arg].tags, k)

\* Each run of hyphens and underscores replaced by one space
RECURSIVE ReplaceRuns(_)
ReplaceRuns(s) ==
  IF s = << >> THEN << >>
  ELSE IF IsSep(Head(s)) THEN << " " >> \o ReplaceRuns(DropSeps(s))
  ELSE << Head(s) >> \o ReplaceRuns(Tail(s))

\* The file name without its extension, runs replaced, trimmed
SpacedFileName(p) == trim(ReplaceRuns(parseName(p)))

\* C4: when no metadata caption is found (the file is no JPEG, its metadata
\* cannot be parsed, or all five tags are missing) the caption is "Video" for
\* a .mp4/.mov/.webm file and otherwise the file name without extension with
\* each run of hyphens/underscores replaced by one space, trimmed; a video
\* never gets a filename caption and the metadata of a file that is no JPEG
\* is never read.
C4_FallbackCaption ==
  ProbedFile =>
    /\ (ProbedExt \notin JpegExts \/ ~exif[probe.arg].ok
          \/ exif[probe.arg].tags = NoTags)
         => probe.ret.caption = IF ProbedExt \in VideoExts THEN VideoCaption
                                ELSE SpacedFileName(probe.arg)
    /\ ProbedExt \in VideoExts => probe.ret.caption = VideoCaption
    /\ ProbedExt \notin JpegExts => probe.arg \notin exifReads

\* C4 witness: beach_sunset.mp4 was captioned "Video"
C4_Witness ==
  /\ ProbedFile
  /\ probe.arg = << "b", "e", "a", "c", "h", "_", "s", "u", "n", "s", "e", "t", ".", "m", "p", "4" >>
  /\ probe.ret.caption = VideoCaption


(***************************************************************************)
(* Direct calls of findFolderCover (and of the folder item built from it)  *)
(* on one folder of the root, over the listings below.                     *)
(***************************************************************************)
MaxCoverEntries == 3

CoverFolderNames == { << "d" >>, << "m", "y", "_", "t", "r", "i", "p", "-", "2" >>, << "_" >> }

CoverPng == << "c", "o", "v", "e", "r", ".", "p", "n", "g" >>

Cover2Jpg == << "C", "o", "v", "e", "r", "2", ".", "j", "p", "g" >>

AJpg == << "a", ".", "j", "p", "g" >>

\* The entries a probed folder is made of: cover-named and other media
\* files, a file that is no media, a plain subdirectory, and a subdirectory
\* whose name ends in a media extension.
CoverUniverse ==
  { FileEntry(CoverPng), FileEntry(Cover2Jpg), FileEntry(AJpg),
    FileEntry(<< "b", ".", "p", "n", "g" >>), FileEntry(<< "n", "o", "t", "e", "s", ".", "t", "x", "t" >>),
    DirEntry(<< "s", "u", "b" >>), DirEntry(<< "n", ".", "p", "n", "g" >>) }

\* The sequences of at most n distinct elements of U
DistinctSeqs(U, n) ==
  UNION { { q \in [1..k -> U] : \A i, j \in 1..k : i # j => q[i] # q[j] }
          : k \in 0..n }

DescTags(d) == [NoTags EXCEPT !.ImageDescription = Some(d)]

\* The metadata of a JPEG of a probed folder: unreadable; a description and a
\* title; no description but the other four tags; a blank description; an
\* empty description.
CoverExifValues ==
  { [ok |-> FALSE, tags |-> NoTags],
    [ok |-> TRUE, tags |-> [DescTags(<< " ", "D", "e", "s", "c", " " >>) EXCEPT !.Title = Some(<< "T", "i", "t", "l", "e" >>)]],
    [ok |-> TRUE,
     tags |-> [ImageDescription |-> Null, Title |-> Some(<< "T", "i", "t", "l", "e" >>),
               ObjectName |-> Some(<< "O", "b", "j" >>),
               DateTimeOriginal |-> Some(1710460800),
               Model |-> Some(<< "C", "a", "m" >>)]],
    [ok |-> TRUE, tags |-> DescTags(<< " ", " " >>)],
    [ok |-> TRUE, tags |-> DescTags(<< >>)] }

\* The metadata of the other files, whatever their extension: a description
DescribedExif == [ok |-> TRUE, tags |-> DescTags(<< "P", "n", "g" >>)]

\* Reading a directory as a file throws
DirExif == [ok |-> FALSE, tags |-> NoTags]

\* The file inside every subdirectory of a probed folder
NestedListing == << FileEntry(<< "z", ".", "g", "i", "f" >>) >>

entryPaths(dir, entries) ==
  { pathJoin(dir, entries[i].name) : i \in 1..Len(entries) }

subdirPaths(dir, entries) ==
  { pathJoin(dir, entries[i].name) :
      i \in { j \in 1..Len(entries) : entries[j].kind = "dir" } }

InitCover ==
  /\ \E f \in CoverFolderNames,
        listing \in DistinctSeqs(CoverUniverse, MaxCoverEntries),
        e1 \in CoverExifValues, e2 \in CoverExifValues :
       /\ ls = [d \in {<< >>, f} \cup subdirPaths(f, listing) |->
                  IF d = << >> THEN << DirEntry(f) >>
                  ELSE IF d = f THEN listing
                  ELSE NestedListing]
       /\ exif = [q \in entryPaths(f, listing) |->
                    IF q \in subdirPaths(f, listing) THEN DirExif
                    ELSE IF basename(q) = Cover2Jpg THEN e1
                    ELSE IF basename(q) = AJpg THEN e2
                    ELSE DescribedExif]
       /\ unreadable \in { {}, {f} }
  /\ tzOffset = 0
  /\ probe = NoProbe
  /\ exifReads = {}
  /\ readdirLog = << >>
  /\ HandlerIdle
  /\ previous = NoPrevious

\* findFolderCover called on the folder of the root, and its gallery item
CoverCall ==
  /\ probe = NoProbe
  /\ \E i \in 1..Len(ls[<< >>]) :
       LET f == ls[<< >>][i].name
       IN  /\ ls[<< >>][i].kind = "dir"
           /\ probe' = [op |-> "findFolderCover", arg |-> f,
                        ret |-> findFolderCover(f), item |-> folderItem(f)]
           /\ exifReads' = exifReads \cup exifReadsOfCover(f)
           /\ readdirLog' = Append(readdirLog, [by |-> "cover", dir |-> f])
  /\ UNCHANGED << fsVars, handlerVars >>

SpecCover == InitCover /\ [][CoverCall]_vars

(***************************************************************************)
(* Properties of the cover choice, checked under SpecCover.                *)
(***************************************************************************)
ProbedCover == probe.op = "findFolderCover"

\* The immediate regular files of a directory that have a supported
\* extension, in enumeration order
IsMediaFileEntry(e) ==
  e.kind = "file" /\ toLowerCase(extname(e.name)) \in MediaExts

mediaFilesIn(dir) == entryNames(SelectSeq(ls[dir], IsMediaFileEntry))

\* The name without extension starts with "cover", whatever the letter case
NameStartsWithCover(n) ==
  LET b == parseName(n)
  IN  /\ Len(b) >= Len(CoverPrefix)
      /\ \A i \in 1..Len(CoverPrefix) : ToLowerChar(b[i]) = CoverPrefix[i]

\* The first cover-named element of M, else the first element of M
FirstCoverOrFirst(M) ==
  IF \E i \in 1..Len(M) : NameStartsWithCover(M[i])
  THEN M[CHOOSE i \in 1..Len(M) :
           /\ NameStartsWithCover(M[i])
           /\ \A j \in 1..(i - 1) : ~NameStartsWithCover(M[j])]
  ELSE M[1]

\* C6: among the immediate media files of the folder, in enumeration order,
\* findFolderCover chooses the first one whose name without extension starts
\* with "cover" (case-insensitive), and otherwise the first media file,
\* whatever the other entries are.
C6_CoverChoice ==
  (ProbedCover /\ probe.arg \notin unreadable
     /\ mediaFilesIn(probe.arg) # << >>) =>
    /\ ~IsNull(probe.ret)
    /\ ValueOf(probe.ret).url =
         << "/" >> \o pathJoin(probe.arg,
                               FirstCoverOrFirst(mediaFilesIn(probe.arg)))

\* The rule the code follows: the same choice among the immediate entries
\* with a supported extension, directories included.
CoverChoiceAmongListedNames ==
  LET M == SelectSeq(entryNames(ls[probe.arg]),
                     LAMBDA n : toLowerCase(extname(n)) \in MediaExts)
  IN  (ProbedCover /\ probe.arg \notin unreadable /\ M # << >>) =>
        /\ ~IsNull(probe.ret)
        /\ ValueOf(probe.ret).url =
             << "/" >> \o pathJoin(probe.arg, FirstCoverOrFirst(M))

\* The path of the chosen cover, from its url
ProbedCoverPath == Tail(ValueOf(probe.ret).url)

\* C7: the caption of a folder item is the folder name with hyphen/underscore
\* runs replaced by spaces (trimmed), unless the chosen cover is a .jpg/.jpeg
\* whose metadata has a (non-empty) ImageDescription, and then it is that
\* text (trimmed); no other tag and no cover that is not a JPEG changes it.
C7_FolderCaption ==
  ProbedCover =>
    probe.item.caption =
      IF /\ ~IsNull(probe.ret)
         /\ ValueOf(probe.ret).ext \in JpegExts
         /\ exif[ProbedCoverPath].ok
         /\ TruthyStr(exif[ProbedCoverPath].tags.ImageDescription)
      THEN trim(ValueOf(exif[ProbedCoverPath].tags.ImageDescription))
      ELSE trim(ReplaceRuns(probe.arg))

\* C7 witness: the cover Cover2.jpg gave the folder my_trip-2 its description
C7_Witness ==
  /\ ProbedCover
  /\ probe.arg = << "m", "y", "_", "t", "r", "i", "p", "-", "2" >>
  /\ ~IsNull(probe.ret)
  /\ ValueOf(probe.ret).url = << "/" >> \o pathJoin(<< "m", "y", "_", "t", "r", "i", "p", "-", "2" >>, Cover2Jpg)
  /\ probe.item.caption = << "D", "e", "s", "c" >>


(***************************************************************************)
(* GET /: the gallery items of the root entries.                           *)
(***************************************************************************)
\* The gallery item of a media file of the root
fileItem(entryName) ==
  LET fileData == processMediaFileForModal(entryName)
  IN  [type |-> "file", file |-> fileData.file, caption |-> fileData.caption,
       ext |-> fileData.ext, thumbnailUrl |-> << "/" >> \o entryName]

\* What the callback of entries.map resolves to for a file entry (a
\* directory entry resolves to its folderItem once its cover is looked up)
fileEntryItem(entry) ==
  IF entry.kind = "file" /\ isMediaName(entry.name)
  THEN Some(fileItem(entry.name))
  ELSE Null

\* a.name || a.caption: a folder has a (non-empty) name, a file has none
sortKey(a) == IF a.type = "folder" THEN a.name ELSE a.caption

\* compareItems without the folders-first branches
compareItems_KeysOnly(a, b) == localeCompare(sortKey(a), sortKey(b))

\* The comparator of galleryItems.sort
compareItems(a, b) ==
  IF a.type = "folder" /\ b.type # "folder" THEN -1
  ELSE IF a.type # "folder" /\ b.type = "folder" THEN 1
  ELSE localeCompare(sortKey(a), sortKey(b))

\* x inserted into the sorted sequence q, after the elements not greater
RECURSIVE insertSorted(_, _)
insertSorted(q, x) ==
  IF q = << >> THEN << x >>
  ELSE IF compareItems(q[Len(q)], x) <= 0 THEN Append(q, x)
  ELSE Append(insertSorted(SubSeq(q, 1, Len(q) - 1), x), q[Len(q)])

\* Array.prototype.sort with compareItems (a stable sort)
RECURSIVE sortItems(_)
sortItems(q) ==
  IF q = << >> THEN << >>
  ELSE insertSorted(sortItems(SubSeq(q, 1, Len(q) - 1)), q[Len(q)])

\* .filter((item) => item !== null) of the resolved items
RECURSIVE nonNull(_)
nonNull(q) ==
  IF q = << >> THEN << >>
  ELSE IF IsNull(Head(q)) THEN nonNull(Tail(q))
  ELSE << ValueOf(Head(q)) >> \o nonNull(Tail(q))

\* findIndexOfFile counting positions from 1
findIndexOfFile_OneBased(list, file) ==
  IF \E i \in 1..Len(list) : list[i].file = file
  THEN CHOOSE i \in 1..Len(list) :
         /\ list[i].file = file
         /\ \A j \in 1..(i - 1) : list[j].file # file
  ELSE -1

\* Array.prototype.findIndex((f) => f.file === file): 0-based, -1 if absent
findIndexOfFile(list, file) ==
  IF \E i \in 1..Len(list) : list[i].file = file
  THEN (CHOOSE i \in 1..Len(list) :
          /\ list[i].file = file
          /\ \A j \in 1..(i - 1) : list[j].file # file) - 1
  ELSE -1

mediaElementTag(ext) == IF ext \in VideoExts THEN "video" ELSE "img"

\* The tile of one gallery item of the main page
renderMainTile(data, list) ==
  IF data.type = "folder"
  THEN [kind |-> "folder", href |-> data.link, src |-> data.thumbnailUrl,
        caption |-> data.caption]
  ELSE [kind |-> "file", tag |-> mediaElementTag(data.ext),
        src |-> data.thumbnailUrl, caption |-> data.caption,
        dataIndex |-> findIndexOfFile(list, data.file)]

\* The tile of the index-th (0-based) media file of a folder page
renderFolderTile(data, index) ==
  [kind |-> "file", tag |-> mediaElementTag(data.ext),
   src |-> << "/" >> \o data.file, caption |-> data.caption,
   dataIndex |-> index]

\* The readdir calls of the subdirectories among entries, in their order
RECURSIVE subdirReaddirs(_, _, _)
subdirReaddirs(by, dir, entries) ==
  IF entries = << >> THEN << >>
  ELSE (IF Head(entries).kind = "dir"
        THEN << [by |-> by, dir |-> pathJoin(dir, Head(entries).name)] >>
        ELSE << >>) \o subdirReaddirs(by, dir, Tail(entries))

\* walkContinuations that queues the files of the root only
walkContinuations_RootOnly(dir, entries) ==
  IF dir = << >>
  THEN [i \in 1..Len(SelectSeq(entries, LAMBDA e : e.kind = "file" /\ isMediaName(e.name))) |->
          [k |-> "push",
           file |-> SelectSeq(entries, LAMBDA e : e.kind = "file" /\ isMediaName(e.name))[i].name]]
  ELSE << >>

\* The continuations the walk queues for the media files among entries: a
\* JPEG first awaits getExifData inside processMediaFileForModal, any other
\* file is already resolved and only the push awaits it
RECURSIVE walkContinuations(_, _)
walkContinuations(dir, entries) ==
  IF entries = << >> THEN << >>
  ELSE LET e == Head(entries)
           relativePath == pathJoin(dir, e.name)
       IN  (IF e.kind = "file" /\ isMediaName(e.name)
            THEN << [k |-> IF toLowerCase(extname(e.name)) \in JpegExts
                           THEN "exif" ELSE "push",
                     file |-> relativePath] >>
            ELSE << >>) \o walkContinuations(dir, Tail(entries))

\* The calls of getExifData made when processMediaFileForModal is started on
\* the media files among the entries of dir
exifReadsOfFiles(dir, entries) ==
  UNION { exifReadsOfFile(pathJoin(dir, entries[i].name)) :
            i \in { j \in 1..Len(entries) :
                      entries[j].kind = "file" /\ isMediaName(entries[j].name) } }

(***************************************************************************)
(* GET /: the handler.                                                     *)
(***************************************************************************)
Root == << >>

\* The request arrives; the handler calls readdir on the media root
GetRoot ==
  /\ pc = "idle"
  /\ request' = [route |-> "root"]
  /\ pc' = "rootReaddir"
  /\ readdirLog' = Append(readdirLog, [by |-> "root", dir |-> Root])
  /\ UNCHANGED << fsVars, probe, client, statOutcome, previous, exifReads, items, pendingCovers, galleryItems,
                  walkPending, microtasks, allMediaFilesForModal, response, outcomes >>

\* RootReaddirFails answering with an empty gallery page instead
RootReaddirFails_EmptyPage ==
  /\ pc = "rootReaddir"
  /\ Root \in unreadable
  /\ response' = [status |-> "page", view |-> "main", tiles |-> << >>,
                  mediaFiles |-> << >>]
  /\ outcomes' = Append(outcomes, "page")
  /\ pc' = "done"
  /\ UNCHANGED << fsVars, probe, client, statOutcome, previous, exifReads, readdirLog, request, items,
                  pendingCovers, galleryItems, walkPending, microtasks,
                  allMediaFilesForModal >>

\* readdir of the root fails: the catch of the handler answers 500
RootReaddirFails ==
  /\ pc = "rootReaddir"
  /\ Root \in unreadable
  /\ response' = [status |-> "500"]
  /\ outcomes' = Append(outcomes, "500")
  /\ pc' = "done"
  /\ UNCHANGED << fsVars, probe, client, statOutcome, previous, exifReads, readdirLog, request, items,
                  pendingCovers, galleryItems, walkPending, microtasks,
                  allMediaFilesForModal >>

\* readdir of the root returns: entries.map starts one task per entry; a
\* file is captioned at once, a directory waits for the readdir of its
\* cover lookup
RootReaddirDone ==
  /\ pc = "rootReaddir"
  /\ Root \notin unreadable
  /\ LET entries == ls[Root]
     IN  /\ items' = [i \in 1..Len(entries) |->
                        IF entries[i].kind = "dir" THEN Null
                        ELSE fileEntryItem(entries[i])]
         /\ pendingCovers' = { i \in 1..Len(entries) : entries[i].kind = "dir" }
         /\ exifReads' = exifReads \cup exifReadsOfFiles(Root, entries)
         /\ readdirLog' = readdirLog \o subdirReaddirs("cover", Root, entries)
  /\ pc' = "items"
  /\ UNCHANGED << fsVars, probe, client, statOutcome, previous, request, galleryItems, walkPending,
                  microtasks, allMediaFilesForModal, response, outcomes >>

\* The readdir of one cover lookup completes (or fails, which gives no cover)
CoverReaddirDone ==
  /\ pc = "items"
  /\ \E i \in pendingCovers :
       /\ items' = [items EXCEPT ![i] = Some(folderItem(ls[Root][i].name))]
       /\ exifReads' = exifReads \cup exifReadsOfCover(ls[Root][i].name)
       /\ pendingCovers' = pendingCovers \ {i}
  /\ UNCHANGED << fsVars, probe, client, statOutcome, previous, readdirLog, request, pc, galleryItems,
                  walkPending, microtasks, allMediaFilesForModal, response, outcomes >>

\* Promise.all of the items resolves: filter, sort, and start the walk
ItemsDone ==
  /\ pc = "items"
  /\ pendingCovers = {}
  /\ galleryItems' = sortItems(nonNull(items))
  /\ walkPending' = {Root}
  /\ readdirLog' = Append(readdirLog, [by |-> "walk", dir |-> Root])
  /\ pc' = "walk"
  /\ UNCHANGED << fsVars, probe, client, statOutcome, previous, exifReads, request, items, pendingCovers,
                  microtasks, allMediaFilesForModal, response, outcomes >>

\* WalkReaddirFails whose every failing readdir reaches the catch of the
\* handler, which answers each time
WalkReaddirFails_EveryFailureAnswers ==
  /\ microtasks = << >>
  /\ \E d \in walkPending :
       /\ d \in unreadable
       /\ walkPending' = walkPending \ {d}
  /\ response' = [status |-> "500"]
  /\ outcomes' = Append(outcomes, "500")
  /\ pc' = "done"
  /\ UNCHANGED << fsVars, probe, client, statOutcome, previous, exifReads, readdirLog, request, items,
                  pendingCovers, galleryItems, microtasks,
                  allMediaFilesForModal >>

\* A readdir of the walk fails: collectAllMediaFiles rejects, Promise.all
\* rejects up to the handler, whose catch answers 500 (once); the reads of
\* the sibling directories stay outstanding
WalkReaddirFails ==
  /\ microtasks = << >>
  /\ \E d \in walkPending :
       /\ d \in unreadable
       /\ walkPending' = walkPending \ {d}
  /\ IF pc = "walk"
     THEN /\ response' = [status |-> "500"]
          /\ outcomes' = Append(outcomes, "500")
          /\ pc' = "done"
     ELSE UNCHANGED << response, outcomes, pc >>
  /\ UNCHANGED << fsVars, probe, client, statOutcome, previous, exifReads, readdirLog, request, items,
                  pendingCovers, galleryItems, microtasks,
                  allMediaFilesForModal >>

\* WalkReaddirDone that starts no readdir on the subdirectories
WalkReaddirDone_NoRecursion ==
  /\ microtasks = << >>
  /\ \E d \in walkPending :
       /\ d \notin unreadable
       /\ walkPending' = walkPending \ {d}
       /\ readdirLog' = readdirLog
       /\ microtasks' = walkContinuations(d, ls[d])
       /\ exifReads' = exifReads \cup exifReadsOfFiles(d, ls[d])
  /\ UNCHANGED << fsVars, probe, client, statOutcome, previous, request, pc, items,
                  pendingCovers, galleryItems, allMediaFilesForModal, response, outcomes >>

\* A readdir of the walk returns (the continuation queue is empty when an
\* I/O callback runs): the walk recurses into the subdirectories and starts
\* processMediaFileForModal on the media files
WalkReaddirDone ==
  /\ microtasks = << >>
  /\ \E d \in walkPending :
       /\ d \notin unreadable
       /\ walkPending' = (walkPending \ {d}) \cup subdirPaths(d, ls[d])
       /\ readdirLog' = readdirLog \o subdirReaddirs("walk", d, ls[d])
       /\ microtasks' = walkContinuations(d, ls[d])
       /\ exifReads' = exifReads \cup exifReadsOfFiles(d, ls[d])
  /\ UNCHANGED << fsVars, probe, client, statOutcome, previous, request, pc, items, pendingCovers,
                  galleryItems, allMediaFilesForModal, response, outcomes >>

\* processMediaFileForModal resumes after await getExifData and returns: its
\* caller, awaiting it, is queued
ExifAwaitResumes ==
  /\ microtasks # << >>
  /\ Head(microtasks).k = "exif"
  /\ microtasks' = Append(Tail(microtasks),
                          [k |-> "push", file |-> Head(microtasks).file])
  /\ UNCHANGED << fsVars, probe, client, statOutcome, previous, exifReads, readdirLog, request, pc, items,
                  pendingCovers, galleryItems, walkPending,
                  allMediaFilesForModal, response, outcomes >>

\* allMediaFilesForModal.push(await processMediaFileForModal(...)) resumes
PushMediaFile ==
  /\ microtasks # << >>
  /\ Head(microtasks).k = "push"
  /\ allMediaFilesForModal' =
       Append(allMediaFilesForModal,
              processMediaFileForModal(Head(microtasks).file))
  /\ microtasks' = Tail(microtasks)
  /\ UNCHANGED << fsVars, probe, client, statOutcome, previous, exifReads, readdirLog, request, pc, items,
                  pendingCovers, galleryItems, walkPending, response, outcomes >>

\* The walk has completed: the page is rendered and sent
WalkDone ==
  /\ pc = "walk"
  /\ walkPending = {}
  /\ microtasks = << >>
  /\ response' = [status |-> "page", view |-> "main",
                  tiles |-> [i \in 1..Len(galleryItems) |->
                               renderMainTile(galleryItems[i],
                                              allMediaFilesForModal)],
                  mediaFiles |-> allMediaFilesForModal]
  /\ outcomes' = Append(outcomes, "page")
  /\ pc' = "done"
  /\ UNCHANGED << fsVars, probe, client, statOutcome, previous, exifReads, readdirLog, request, items,
                  pendingCovers, galleryItems, walkPending, microtasks,
                  allMediaFilesForModal >>

(***************************************************************************)
(* GET /:potentialFolderName: the handler.                                 *)
(***************************************************************************)
\* A name that is no entry of the root
MissingName == << "z", "z" >>

\* The path parameters requested: the names of the root entries and a name
\* that does not exist
FolderRequestNames ==
  { ls[Root][i].name : i \in 1..Len(ls[Root]) } \cup { MissingName }

rootEntryKind(name) ==
  IF \E i \in 1..Len(ls[Root]) : ls[Root][i].name = name
  THEN ls[Root][CHOOSE i \in 1..Len(ls[Root]) : ls[Root][i].name = name].kind
  ELSE "enoent"

DotDot == << ".", "." >>

\* The segments of a path, empty ones dropped
RECURSIVE pathSegments(_)
pathSegments(p) ==
  IF p = << >> THEN << >>
  ELSE LET slashes == { i \in 1..Len(p) : p[i] = "/" }
       IN  IF slashes = {} THEN << p >>
           ELSE LET i == CHOOSE j \in slashes : \A k \in slashes : j <= k
                IN  (IF i = 1 THEN << >> ELSE << SubSeq(p, 1, i - 1) >>)
                      \o pathSegments(SubSeq(p, i + 1, Len(p)))

\* path.normalize on the segments: "." is dropped, ".." removes the segment
\* before it, and stays when there is none to remove
RECURSIVE normalizeSegments(_, _)
normalizeSegments(segs, acc) ==
  IF segs = << >> THEN acc
  ELSE IF Head(segs) = << "." >> THEN normalizeSegments(Tail(segs), acc)
  ELSE IF Head(segs) = DotDot /\ acc # << >> /\ acc[Len(acc)] # DotDot
       THEN normalizeSegments(Tail(segs), SubSeq(acc, 1, Len(acc) - 1))
  ELSE normalizeSegments(Tail(segs), Append(acc, Head(segs)))

RECURSIVE joinSegments(_)
joinSegments(segs) ==
  IF segs = << >> THEN << >>
  ELSE IF Len(segs) = 1 THEN segs[1]
  ELSE segs[1] \o << "/" >> \o joinSegments(Tail(segs))

\* path.join normalises its result; paths are written from the media root,
\* so that the root is the empty path and its parent is ".."
pathNormalize(p) == joinSegments(normalizeSegments(pathSegments(p), << >>))

\* path.join(__dirname, photosDirectory, folderName)
folderFullPath(folderName) == pathNormalize(pathJoin(Root, folderName))

\* What fs.promises.stat finds at a path: a directory, a file, or nothing
statKind(fullPath) ==
  IF fullPath \in DOMAIN ls THEN "dir"
  ELSE IF \E d \in DOMAIN ls : \E i \in 1..Len(ls[d]) :
            pathNormalize(pathJoin(d, ls[d][i].name)) = fullPath
       THEN LET d == CHOOSE e \in DOMAIN ls : \E i \in 1..Len(ls[e]) :
                       pathNormalize(pathJoin(e, ls[e][i].name)) = fullPath
                i == CHOOSE j \in 1..Len(ls[d]) :
                       pathNormalize(pathJoin(d, ls[d][j].name)) = fullPath
            IN  ls[d][i].kind
  ELSE "enoent"

\* The request arrives; the handler calls stat on the path
GetFolder ==
  /\ pc = "idle"
  /\ \E name \in FolderRequestNames :
       request' = [route |-> "folder", name |-> name]
  /\ pc' = "stat"
  /\ UNCHANGED << fsVars, probe, client, statOutcome, previous, exifReads, readdirLog, items, pendingCovers,
                  galleryItems, walkPending, microtasks,
                  allMediaFilesForModal, response, outcomes >>

\* stat reports no directory, or fails with ENOENT: next()
FolderStatNotDirectory ==
  /\ pc = "stat"
  /\ statKind(folderFullPath(request.name)) # "dir"
  /\ statOutcome' = (IF statKind(folderFullPath(request.name)) = "enoent"
                     THEN "ENOENT" ELSE "notDirectory")
  /\ response' = [status |-> "next"]
  /\ outcomes' = Append(outcomes, "next")
  /\ pc' = "done"
  /\ UNCHANGED << fsVars, probe, client, previous, exifReads, readdirLog, request, items,
                  pendingCovers, galleryItems, walkPending, microtasks,
                  allMediaFilesForModal >>

\* stat reports a directory: getMediaFilesFromDirectory calls readdir
FolderStatDirectory ==
  /\ pc = "stat"
  /\ statKind(folderFullPath(request.name)) = "dir"
  /\ statOutcome' = "directory"
  /\ readdirLog' = Append(readdirLog, [by |-> "folder",
                                       dir |-> folderFullPath(request.name)])
  /\ pc' = "folderReaddir"
  /\ UNCHANGED << fsVars, probe, client, previous, exifReads, request, items, pendingCovers,
                  galleryItems, walkPending, microtasks,
                  allMediaFilesForModal, response, outcomes >>

\* FolderStatFails passing control on as for ENOENT
FolderStatFails_Next ==
  /\ pc = "stat"
  /\ statOutcome' = "error"
  /\ response' = [status |-> "next"]
  /\ outcomes' = Append(outcomes, "next")
  /\ pc' = "done"
  /\ UNCHANGED << fsVars, probe, client, previous, exifReads, readdirLog, request,
                  items, pendingCovers, galleryItems, walkPending, microtasks,
                  allMediaFilesForModal >>

\* stat fails with an error other than ENOENT (EACCES, ENAMETOOLONG, ELOOP,
\* EIO: whatever the path names): the catch answers 500
FolderStatFails ==
  /\ pc = "stat"
  /\ statOutcome' = "error"
  /\ response' = [status |-> "500"]
  /\ outcomes' = Append(outcomes, "500")
  /\ pc' = "done"
  /\ UNCHANGED << fsVars, probe, client, previous, exifReads, readdirLog, request,
                  items, pendingCovers, galleryItems, walkPending, microtasks,
                  allMediaFilesForModal >>

\* readdir completes (or fails, which gives no media file): every media file
\* is captioned, Promise.all keeps their order, the page is rendered and sent
FolderReaddirDone ==
  /\ pc = "folderReaddir"
  /\ LET mediaFiles == getMediaFilesFromDirectory(folderFullPath(request.name))
         folderMediaFilesForModal ==
           [i \in 1..Len(mediaFiles) |->
              processMediaFileForModal(
                pathNormalize(pathJoin(request.name, mediaFiles[i])))]
     IN  /\ response' = [status |-> "page", view |-> "folder",
                         tiles |-> [i \in 1..Len(mediaFiles) |->
                                      renderFolderTile(
                                        folderMediaFilesForModal[i], i - 1)],
                         mediaFiles |-> folderMediaFilesForModal]
         /\ outcomes' = Append(outcomes, "page")
         /\ exifReads' = exifReads \cup
              UNION { exifReadsOfFile(
                        pathNormalize(pathJoin(request.name, mediaFiles[i]))) :
                        i \in 1..Len(mediaFiles) }
  /\ pc' = "done"
  /\ UNCHANGED << fsVars, probe, client, statOutcome, previous, readdirLog, request, items, pendingCovers,
                  galleryItems, walkPending, microtasks,
                  allMediaFilesForModal >>


(***************************************************************************)
(* The file systems the handlers are run on.                               *)
(***************************************************************************)
MaxRootEntries == 3

MaxSubEntries == 2

DirD == << "d" >>

DirCe == << "C", "-", "e" >>

DirN == << "n" >>

DirMGif == << "m", ".", "g", "i", "f" >>

BJpg == << "b", ".", "j", "p", "g" >>

\* The entries the root is made of: a JPEG, a file with an upper-case
\* extension, a file that is no media, two directories
RootUniverse ==
  { FileEntry(BJpg), FileEntry(<< "A", ".", "P", "N", "G" >>), FileEntry(<< "n", "o", "t", "e", "s", ".", "t", "x", "t" >>),
    DirEntry(DirD), DirEntry(DirCe) }

\* The entries the directory d is made of: a media file, a plain
\* subdirectory, a subdirectory whose name ends in a media extension
SubUniverse == { FileEntry(<< "x", ".", "j", "p", "g" >>), DirEntry(DirN), DirEntry(DirMGif) }

\* The listing of the directory C-e: a video and a file that is no media
CeListing == << FileEntry(<< "w", ".", "w", "e", "b", "m" >>), FileEntry(<< "r", "e", "a", "d", "m", "e", ".", "m", "d" >>) >>

\* The listing of a directory of the tree, given those of the root and of d
listingOf(dir, rootList, dList) ==
  IF dir = Root THEN rootList
  ELSE IF dir = DirD THEN dList
  ELSE IF dir = DirCe THEN CeListing
  ELSE IF dir = pathJoin(DirD, DirN) THEN << FileEntry(<< "z", ".", "g", "i", "f" >>) >>
  ELSE << FileEntry(<< "q", ".", "j", "p", "g" >>) >>

\* The metadata of b.jpg: unreadable, or a description
MainExifValues ==
  { [ok |-> FALSE, tags |-> NoTags], [ok |-> TRUE, tags |-> DescTags(<< "D", "e", "s", "c" >>)] }

InitFs ==
  \E rootList \in DistinctSeqs(RootUniverse, MaxRootEntries),
     dList \in DistinctSeqs(SubUniverse, MaxSubEntries),
     eb \in MainExifValues :
    LET dirs1 == subdirPaths(Root, rootList)
        dirs2 == IF DirD \in dirs1 THEN subdirPaths(DirD, dList) ELSE {}
        dirs  == {Root} \cup dirs1 \cup dirs2
        L     == [d \in dirs |-> listingOf(d, rootList, dList)]
        paths == UNION { entryPaths(d, L[d]) : d \in dirs }
    IN  /\ ls = L
        /\ exif = [q \in paths |->
                     IF q \in dirs THEN DirExif
                     ELSE IF q = BJpg THEN eb
                     ELSE DescribedExif]
        /\ unreadable \in { {} } \cup { {d} : d \in {Root} \cup dirs1 }

Init ==
  /\ InitFs
  /\ tzOffset = 0
  /\ probe = NoProbe
  /\ exifReads = {}
  /\ readdirLog = << >>
  /\ HandlerIdle
  /\ previous = NoPrevious

Next ==
  \/ GetRoot
  \/ RootReaddirFails
  \/ RootReaddirDone
  \/ CoverReaddirDone
  \/ ItemsDone
  \/ WalkReaddirFails
  \/ WalkReaddirDone
  \/ ExifAwaitResumes
  \/ PushMediaFile
  \/ WalkDone
  \/ GetFolder
  \/ FolderStatNotDirectory
  \/ FolderStatDirectory
  \/ FolderStatFails
  \/ FolderReaddirDone

Spec == Init /\ [][Next]_vars


(***************************************************************************)
(* Properties of the handlers, checked under Spec.                         *)
(***************************************************************************)
(***************************************************************************)
(* Two requests on the same file system, one after the other: the         *)
(* handlers keep no state between requests, so the second is an            *)
(* independent execution whose response can be compared with the first.   *)
(***************************************************************************)
\* The GET / just answered is remembered and the next request can arrive
NextRequest ==
  /\ pc = "done"
  /\ request.route = "root"
  /\ previous = NoPrevious
  /\ previous' = [request |-> request, response |-> response]
  /\ request' = NoRequest
  /\ pc' = "idle"
  /\ items' = << >>
  /\ pendingCovers' = {}
  /\ galleryItems' = << >>
  /\ walkPending' = {}
  /\ microtasks' = << >>
  /\ allMediaFilesForModal' = << >>
  /\ response' = NoResponse
  /\ outcomes' = << >>
  /\ statOutcome' = "none"
  /\ exifReads' = {}
  /\ readdirLog' = << >>
  /\ UNCHANGED << fsVars, probe, client >>

NextTwice ==
  \/ Next
  \/ NextRequest

SpecTwice == Init /\ [][NextTwice]_vars

(***************************************************************************)
(* GET / alone, on trees of directories, under the fairness of the event   *)
(* loop: an outstanding read completes and a queued continuation is run.   *)
(***************************************************************************)
MaxWalkRootEntries == 2

\* The entries the root of a walked tree is made of
WalkRootUniverse == { FileEntry(BJpg), DirEntry(DirD), DirEntry(DirCe) }

InitWalk ==
  /\ \E rootList \in DistinctSeqs(WalkRootUniverse, MaxWalkRootEntries),
        dList \in DistinctSeqs(SubUniverse, MaxSubEntries) :
       LET dirs1 == subdirPaths(Root, rootList)
           dirs2 == IF DirD \in dirs1 THEN subdirPaths(DirD, dList) ELSE {}
           dirs  == {Root} \cup dirs1 \cup dirs2
           L     == [d \in dirs |-> listingOf(d, rootList, dList)]
           paths == UNION { entryPaths(d, L[d]) : d \in dirs }
       IN  /\ ls = L
           /\ exif = [q \in paths |-> IF q \in dirs THEN DirExif ELSE DescribedExif]
           /\ unreadable \in { {} } \cup { {d} : d \in {Root} \cup dirs1 }
  /\ tzOffset = 0
  /\ probe = NoProbe
  /\ exifReads = {}
  /\ readdirLog = << >>
  /\ HandlerIdle
  /\ previous = NoPrevious

\* The steps of the event loop for a GET / that has arrived
RootHandlerStep ==
  \/ RootReaddirFails
  \/ RootReaddirDone
  \/ CoverReaddirDone
  \/ ItemsDone
  \/ WalkReaddirFails
  \/ WalkReaddirDone
  \/ ExifAwaitResumes
  \/ PushMediaFile
  \/ WalkDone

NextWalk ==
  \/ GetRoot
  \/ RootHandlerStep

\* A read of the handler is outstanding or a continuation is queued: the
\* guards of the steps of RootHandlerStep
RootHandlerBusy ==
  \/ pc \in {"rootReaddir", "items", "walk"}
  \/ walkPending # {}
  \/ microtasks # << >>

\* Weak fairness of RootHandlerStep, its enabling condition written out
EventLoopFairness ==
  \/ []<>(~RootHandlerBusy)
  \/ []<><<RootHandlerStep>>_vars

FairSpecWalk == InitWalk /\ [][NextWalk]_vars /\ EventLoopFairness

MainPageSent == response.status = "page" /\ response.view = "main"

FolderPageSent == response.status = "page" /\ response.view = "folder"

HasMediaExt(p) == toLowerCase(extname(p)) \in MediaExts

\* The regular files of dir with a supported extension, as paths
mediaFilePathsIn(dir) ==
  { pathJoin(dir, ls[dir][i].name) :
      i \in { j \in 1..Len(ls[dir]) : IsMediaFileEntry(ls[dir][j]) } }

\* Every media file under the media root, at any depth
AllMediaFilePaths == UNION { mediaFilePathsIn(d) : d \in DOMAIN ls }

filesOf(list) == { list[i].file : i \in 1..Len(list) }

\* C5: every file that is a root tile, an entry of the flattened list, an
\* entry of a folder page or a folder cover has an extension that,
\* lowercased, is supported; and a regular file whose extension is supported
\* up to letter case (A.PNG) is a tile of the page of its directory, when
\* that directory could be read.
C5_OnlySupportedExtensions ==
  /\ \A i \in 1..Len(allMediaFilesForModal) :
       HasMediaExt(allMediaFilesForModal[i].file)
  /\ \A i \in 1..Len(items) :
       ~IsNull(items[i]) => HasMediaExt(ValueOf(items[i]).thumbnailUrl)
  /\ response.status = "page" =>
       /\ \A i \in 1..Len(response.tiles) : HasMediaExt(response.tiles[i].src)
       /\ \A i \in 1..Len(response.mediaFiles) :
            /\ HasMediaExt(response.mediaFiles[i].file)
            /\ response.mediaFiles[i].ext \in MediaExts
  /\ MainPageSent =>
       \A q \in mediaFilePathsIn(Root) :
         \E i \in 1..Len(response.tiles) :
           response.tiles[i].kind = "file" /\ response.tiles[i].src = << "/" >> \o q
  /\ (FolderPageSent /\ request.name \notin unreadable) =>
       mediaFilePathsIn(request.name) \subseteq filesOf(response.mediaFiles)

\* C5 witness: the main page of a root that holds A.PNG and notes.txt has
\* a tile for A.PNG
C5_Witness ==
  /\ MainPageSent
  /\ \E i \in 1..Len(ls[Root]) : ls[Root][i].name = << "n", "o", "t", "e", "s", ".", "t", "x", "t" >>
  /\ \E i \in 1..Len(response.tiles) : response.tiles[i].src = << "/", "A", ".", "P", "N", "G" >>

\* The folder tile of the root directory f on the main page
folderTileOf(f) ==
  response.tiles[CHOOSE i \in 1..Len(response.tiles) :
                   /\ response.tiles[i].kind = "folder"
                   /\ response.tiles[i].href = << "/" >> \o f]

HasFolderTile(f) ==
  \E i \in 1..Len(response.tiles) :
    /\ response.tiles[i].kind = "folder"
    /\ response.tiles[i].href = << "/" >> \o f

\* C8: a subfolder with no immediate media file (whatever its own
\* subfolders hold) is still a folder tile linking to /<name>, with the
\* placeholder thumbnail and the caption made from its name; the cover lookup
\* reads the folder itself only.
C8_NoCoverPlaceholder ==
  MainPageSent =>
    /\ \A f \in subdirPaths(Root, ls[Root]) :
         /\ HasFolderTile(f)
         /\ mediaFilesIn(f) = << >> =>
              /\ folderTileOf(f).src = FolderIcon
              /\ folderTileOf(f).caption = trim(ReplaceRuns(f))
    /\ \A i \in 1..Len(readdirLog) :
         readdirLog[i].by = "cover" =>
           readdirLog[i].dir \in subdirPaths(Root, ls[Root])

\* The rule the code follows: the placeholder is used when no immediate
\* entry of the folder, of any kind, has a supported extension.
PlaceholderWhenNoListedMediaName ==
  MainPageSent =>
    \A f \in subdirPaths(Root, ls[Root]) :
      /\ HasFolderTile(f)
      /\ (\A i \in 1..Len(ls[f]) : ~HasMediaExt(ls[f][i].name)) =>
           /\ folderTileOf(f).src = FolderIcon
           /\ folderTileOf(f).caption = trim(ReplaceRuns(f))

tileName(tile) == Tail(tile.href)

\* C9: on the main page every folder tile precedes every file tile, the
\* folder tiles are in non-decreasing order of name and the file tiles in
\* non-decreasing order of caption (locale comparison).
C9_TileOrder ==
  MainPageSent =>
    \A i, j \in 1..Len(response.tiles) :
      i < j =>
        LET a == response.tiles[i]
            b == response.tiles[j]
        IN  /\ ~(a.kind = "file" /\ b.kind = "folder")
            /\ (a.kind = "folder" /\ b.kind = "folder") =>
                 localeCompare(tileName(a), tileName(b)) <= 0
            /\ (a.kind = "file" /\ b.kind = "file") =>
                 localeCompare(a.caption, b.caption) <= 0

\* C9 witness: the root [b.jpg, d, A.PNG] is rendered as d, A.PNG, b.jpg
C9_Witness ==
  /\ MainPageSent
  /\ entryNames(ls[Root]) = << BJpg, DirD, << "A", ".", "P", "N", "G" >> >>
  /\ Len(response.tiles) = 3
  /\ response.tiles[1].kind = "folder"
  /\ response.tiles[2].src = << "/", "A", ".", "P", "N", "G" >>
  /\ response.tiles[3].src = << "/" >> \o BJpg

\* C10: the flattened list of the main page holds every media file under
\* the media root, at any depth, exactly once, and nothing else, whatever the
\* order in which the reads of the walk completed.
C10_FlattenedListComplete ==
  MainPageSent =>
    /\ filesOf(response.mediaFiles) = AllMediaFilePaths
    /\ Len(response.mediaFiles) = Cardinality(AllMediaFilePaths)

\* C10 witness: a main page whose list holds d/n/z.gif, which is no tile
C10_Witness ==
  /\ MainPageSent
  /\ << "d", "/", "n", "/", "z", ".", "g", "i", "f" >> \in filesOf(response.mediaFiles)
  /\ \A i \in 1..Len(response.tiles) : response.tiles[i].src # << "/", "d", "/", "n", "/", "z", ".", "g", "i", "f" >>
  /\ Len(response.mediaFiles) >= 3

\* The file tiles of the page sent, as positions in response.tiles
FileTilePositions ==
  { i \in 1..Len(response.tiles) : response.tiles[i].kind = "file" }

\* C11: on the main page every file tile carries a data-index i with
\* 0 <= i < length of the flattened list, and the entry of the flattened
\* list at (0-based) position i has the relative path of that tile.
C11_DataIndexMatchesList ==
  MainPageSent =>
    \A t \in FileTilePositions :
      LET i == response.tiles[t].dataIndex
      IN  /\ 0 <= i
          /\ i < Len(response.mediaFiles)
          /\ << "/" >> \o response.mediaFiles[i + 1].file = response.tiles[t].src

\* C11 witness: a main page with a file tile whose data-index is 1 and is
\* not its position among the tiles
C11_Witness ==
  /\ MainPageSent
  /\ \E t \in FileTilePositions :
       /\ response.tiles[t].dataIndex = 1
       /\ t - 1 # 1
       /\ response.mediaFiles[2].file = Tail(response.tiles[t].src)
       /\ Len(response.mediaFiles) >= 3

\* The media files under dir in depth-first, directory-enumeration order:
\* each entry contributes at its place, a subdirectory all of its files
RECURSIVE DepthFirstFrom(_, _)
DepthFirstFrom(dir, k) ==
  IF k > Len(ls[dir]) THEN << >>
  ELSE LET e == ls[dir][k]
           p == pathJoin(dir, e.name)
       IN  (IF e.kind = "dir" THEN DepthFirstFrom(p, 1)
            ELSE IF IsMediaFileEntry(e) THEN << p >>
            ELSE << >>) \o DepthFirstFrom(dir, k + 1)

DepthFirstPaths == DepthFirstFrom(Root, 1)

pathsOf(list) == [i \in 1..Len(list) |-> list[i].file]

\* C12: the flattened list of the main page is in depth-first,
\* directory-enumeration order, for every completion order of the reads of
\* the walk.
C12_DepthFirstOrder ==
  MainPageSent => pathsOf(response.mediaFiles) = DepthFirstPaths

\* The tiles of a folder page carry the (0-based) positions of the entries
\* of its list, in order
FolderTilesIndexList ==
  /\ Len(response.tiles) = Len(response.mediaFiles)
  /\ \A k \in 1..Len(response.tiles) :
       /\ response.tiles[k].dataIndex = k - 1
       /\ response.tiles[k].src = << "/" >> \o response.mediaFiles[k].file

\* C13: the list of a folder page is exactly the immediate media files of
\* that (readable) folder in directory-enumeration order, and the tile of
\* the k-th of them carries data-index k.
C13_FolderList ==
  (FolderPageSent /\ request.name \notin unreadable) =>
    /\ pathsOf(response.mediaFiles) =
         [k \in 1..Len(mediaFilesIn(request.name)) |->
            pathJoin(request.name, mediaFilesIn(request.name)[k])]
    /\ FolderTilesIndexList

\* The rule the code follows: the list of a folder page is the immediate
\* entries of the folder, of any kind, whose name has a supported extension.
FolderListIsListedMediaNames ==
  (FolderPageSent /\ request.name \notin unreadable) =>
    /\ pathsOf(response.mediaFiles) =
         [k \in 1..Len(SelectSeq(entryNames(ls[request.name]), HasMediaExt)) |->
            pathJoin(request.name,
                     SelectSeq(entryNames(ls[request.name]), HasMediaExt)[k])]
    /\ FolderTilesIndexList

\* The readdir calls made on dir so far
readdirsOf(dir) == { i \in 1..Len(readdirLog) : readdirLog[i].dir = dir }

\* C14: when the media root cannot be read, GET / answers 500: the handler
\* goes no further than its first readdir, which it calls once, and sends no
\* page.
C14_RootUnreadable500 ==
  (request.route = "root" /\ Root \in unreadable) =>
    /\ pc \in {"rootReaddir", "done"}
    /\ response.status = (IF pc = "done" THEN "500" ELSE "none")
    /\ Cardinality(readdirsOf(Root)) = 1
    /\ items = << >> /\ allMediaFilesForModal = << >>

\* C14 witness: the 500 response of GET / on an unreadable root
C14_Witness ==
  /\ request.route = "root"
  /\ Root \in unreadable
  /\ pc = "done"
  /\ response.status = "500"

\* C15: when the media root can be read, a subfolder whose read fails (in
\* the cover lookup or in the walk) counts as empty and GET / still ends
\* with the page, never with 500.
C15_SubfolderFailureTolerated ==
  (request.route = "root" /\ pc = "done" /\ Root \notin unreadable) =>
    MainPageSent

\* The half of it the code follows: a failed read in the cover lookup gives
\* the folder item without cover, and the handler goes on to the walk.
CoverLookupFailureTolerated ==
  \A i \in 1..Len(items) :
    (/\ ls[Root][i].kind = "dir"
     /\ ls[Root][i].name \in unreadable
     /\ i \notin pendingCovers) =>
      /\ ~IsNull(items[i])
      /\ ValueOf(items[i]).thumbnailUrl = FolderIcon
      /\ ValueOf(items[i]).caption = trim(ReplaceRuns(ls[Root][i].name))

\* C16: on GET /<name>, when stat reports a directory and listing it fails,
\* the answer is 500: no page, partial or empty, is sent.
C16_FolderListingError500 ==
  (/\ request.route = "folder"
   /\ statOutcome = "directory"
   /\ request.name \in unreadable
   /\ pc = "done") =>
    response.status = "500"

\* What the code does then: it sends the page of an empty folder.
FolderListingErrorGivesEmptyPage ==
  (/\ request.route = "folder"
   /\ statOutcome = "directory"
   /\ request.name \in unreadable
   /\ pc = "done") =>
    /\ FolderPageSent
    /\ response.tiles = << >>
    /\ response.mediaFiles = << >>

\* The entry of a list for a JPEG whose metadata cannot be read was looked
\* up and has the caption of its file name
FailedExifGivesNameCaption(f) ==
  (f.ext \in JpegExts /\ ~exif[f.file].ok) =>
    /\ f.file \in exifReads
    /\ f.caption = SpacedFileName(f.file)

\* C17: a JPEG whose metadata cannot be read or parsed is captioned from its
\* file name, as an image that is no JPEG would be, in the gallery items and
\* in the lists; and no request ends with 500 unless a directory could not
\* be read or stat failed.
C17_ExifFailureIsNoMetadata ==
  /\ \A i \in 1..Len(allMediaFilesForModal) :
       FailedExifGivesNameCaption(allMediaFilesForModal[i])
  /\ \A i \in 1..Len(items) :
       (~IsNull(items[i]) /\ ValueOf(items[i]).type = "file") =>
         FailedExifGivesNameCaption(ValueOf(items[i]))
  /\ response.status = "page" =>
       \A i \in 1..Len(response.mediaFiles) :
         FailedExifGivesNameCaption(response.mediaFiles[i])
  /\ (pc = "done" /\ response.status = "500") =>
       (unreadable # {} \/ statOutcome = "error")

\* C17 witness: the main page sent with b.jpg, whose metadata cannot be
\* read, captioned "b"
C17_Witness ==
  /\ MainPageSent
  /\ BJpg \in DOMAIN exif
  /\ ~exif[BJpg].ok
  /\ BJpg \in exifReads
  /\ \E t \in FileTilePositions :
       /\ response.tiles[t].src = << "/" >> \o BJpg
       /\ response.tiles[t].caption = << "b" >>

\* C18: the folder handler sends a page only when <name> is a directory of
\* the media root; for a regular file and for a name that does not exist it
\* sends nothing and calls next(); a stat error other than ENOENT gives 500.
C18_FolderRouteOutcomes ==
  request.route = "folder" =>
    /\ statOutcome = "directory" => rootEntryKind(request.name) = "dir"
    /\ statOutcome = "notDirectory" => rootEntryKind(request.name) = "file"
    /\ statOutcome = "ENOENT" => rootEntryKind(request.name) = "enoent"
    /\ response.status = "page" =>
         (statOutcome = "directory" /\ response.view = "folder")
    /\ pc = "done" =>
         response.status =
           CASE statOutcome = "directory" -> "page"
             [] statOutcome \in {"notDirectory", "ENOENT"} -> "next"
             [] statOutcome = "error" -> "500"

\* C18 witness: a stat error on the path of a directory was answered with 500
C18_Witness ==
  /\ request.route = "folder"
  /\ rootEntryKind(request.name) = "dir"
  /\ statOutcome = "error"
  /\ response.status = "500"

\* C19: two executions of GET / on the same, unchanging file system send
\* the same response (tiles with their data-index, and media list),
\* whatever the order in which their reads completed.
C19_SameResponse ==
  (/\ previous.request.route = "root"
   /\ request.route = "root"
   /\ pc = "done") =>
    response = previous.response

\* The part of the response that does not depend on the completion order:
\* the tiles with their data-index, and the set of entries of the list.
SameTilesAndEntries ==
  (/\ previous.request.route = "root"
   /\ request.route = "root"
   /\ pc = "done") =>
    /\ response.status = previous.response.status
    /\ response.status = "page" =>
         /\ response.tiles = previous.response.tiles
         /\ { response.mediaFiles[i] : i \in 1..Len(response.mediaFiles) } =
              { previous.response.mediaFiles[i] :
                  i \in 1..Len(previous.response.mediaFiles) }

\* The readdir calls the walk has made on dir
walkReaddirsOf(dir) ==
  { i \in 1..Len(readdirLog) :
      readdirLog[i].by = "walk" /\ readdirLog[i].dir = dir }

\* The walk reads directories only, none twice, and has read every directory
\* of the tree when the page is sent
WalkEntersEachDirectoryOnce ==
  /\ \A i \in 1..Len(readdirLog) :
       readdirLog[i].by = "walk" =>
         /\ readdirLog[i].dir \in DOMAIN ls
         /\ Cardinality(walkReaddirsOf(readdirLog[i].dir)) = 1
  /\ MainPageSent =>
       \A d \in DOMAIN ls : Cardinality(walkReaddirsOf(d)) = 1

\* C20: on a (readable) finite tree the walk enters each directory exactly
\* once, entering directories only, and terminates; GET / then sends its
\* page.
C20_WalkTerminates ==
  /\ []WalkEntersEachDirectoryOnce
  /\ (request.route = "root" /\ unreadable = {}) ~>
       (MainPageSent /\ walkPending = {} /\ microtasks = << >>)

\* C20 witness: the page sent after a walk through the root, d, d/n and
\* d/m.gif
C20_Witness ==
  /\ MainPageSent
  /\ walkPending = {}
  /\ { pathJoin(DirD, DirN), pathJoin(DirD, DirMGif) } \subseteq DOMAIN ls
  /\ \A d \in DOMAIN ls : Cardinality(walkReaddirsOf(d)) = 1

(***************************************************************************)
(* Both handlers under the fairness of the event loop, on trees where      *)
(* several directories read at the same time can fail.                     *)
(***************************************************************************)
InitHandlers ==
  /\ \E rootList \in DistinctSeqs(WalkRootUniverse, MaxWalkRootEntries),
        dList \in DistinctSeqs(SubUniverse, MaxSubEntries) :
       LET dirs1 == subdirPaths(Root, rootList)
           dirs2 == IF DirD \in dirs1 THEN subdirPaths(DirD, dList) ELSE {}
           dirs  == {Root} \cup dirs1 \cup dirs2
           L     == [d \in dirs |-> listingOf(d, rootList, dList)]
           paths == UNION { entryPaths(d, L[d]) : d \in dirs }
       IN  /\ ls = L
           /\ exif = [q \in paths |-> IF q \in dirs THEN DirExif ELSE DescribedExif]
           /\ unreadable \in SUBSET ({Root} \cup dirs1)
  /\ tzOffset = 0
  /\ probe = NoProbe
  /\ exifReads = {}
  /\ readdirLog = << >>
  /\ HandlerIdle
  /\ previous = NoPrevious

\* The steps of the event loop for a request that has arrived
HandlerStep ==
  \/ RootHandlerStep
  \/ FolderStatNotDirectory
  \/ FolderStatDirectory
  \/ FolderStatFails
  \/ FolderReaddirDone

NextHandlers ==
  \/ GetRoot
  \/ GetFolder
  \/ HandlerStep

\* A call of the handler is outstanding: the guards of the steps of
\* HandlerStep
HandlerBusy ==
  \/ RootHandlerBusy
  \/ pc \in {"stat", "folderReaddir"}

\* Weak fairness of HandlerStep, its enabling condition written out
HandlerFairness ==
  \/ []<>(~HandlerBusy)
  \/ []<><<HandlerStep>>_vars

FairSpecHandlers == InitHandlers /\ [][NextHandlers]_vars /\ HandlerFairness

\* C21: every run of GET / and of GET /:potentialFolderName ends with
\* exactly one outcome (a page sent, a 500 sent, or next()): the handler
\* never produces two, a finished handler has produced one, the response is
\* that outcome, and a request that has arrived gets its outcome; a walk
\* read failing after the 500 of a sibling's failure adds no outcome
C21_ExactlyOneOutcome ==
  /\ [](/\ Len(outcomes) <= 1
        /\ (pc = "done") <=> (Len(outcomes) = 1)
        /\ Len(outcomes) = 1 => outcomes[1] = response.status
        /\ Len(outcomes) = 0 => response = NoResponse)
  /\ (request.route # "none") ~> (Len(outcomes) = 1)

\* C21 witness: GET / has answered 500 once although the reads of two
\* directories of the walk have both failed, the second after the answer
C21_Witness ==
  /\ request.route = "root"
  /\ outcomes = << "500" >>
  /\ walkPending = {}
  /\ microtasks = << >>
  /\ Cardinality({ d \in unreadable : walkReaddirsOf(d) # {} }) = 2

(***************************************************************************)
(* GET /:potentialFolderName with every value the decoded parameter can    *)
(* take, on a file system that has the directory holding the media root.   *)
(* express.static answers a path with a ".." segment by passing the        *)
(* request on, and %2F in the segment decodes to a separator.              *)
(***************************************************************************)
\* The directory that holds the media root: the program, the media root
\* itself, and a picture
ProjectListing ==
  << FileEntry(<< "s", "e", "r", "v", "e", "r", ".", "j", "s" >>),
     DirEntry(<< "p", "h", "o", "t", "o", "s" >>),
     FileEntry(<< "i", "c", "o", "n", ".", "j", "p", "g" >>) >>

InitTraversal ==
  /\ \E rootList \in DistinctSeqs(WalkRootUniverse, MaxWalkRootEntries),
        dList \in DistinctSeqs(SubUniverse, MaxSubEntries) :
       LET dirs1 == subdirPaths(Root, rootList)
           dirs2 == IF DirD \in dirs1 THEN subdirPaths(DirD, dList) ELSE {}
           dirs  == {Root} \cup dirs1 \cup dirs2
           L     == [d \in dirs \cup {DotDot} |->
                       IF d = DotDot THEN ProjectListing
                       ELSE listingOf(d, rootList, dList)]
           paths == UNION { entryPaths(d, L[d]) : d \in DOMAIN L }
       IN  /\ ls = L
           /\ exif = [q \in paths |->
                        IF q \in dirs \cup subdirPaths(DotDot, ProjectListing)
                        THEN DirExif ELSE DescribedExif]
           /\ unreadable = {}
  /\ tzOffset = 0
  /\ probe = NoProbe
  /\ exifReads = {}
  /\ readdirLog = << >>
  /\ HandlerIdle
  /\ previous = NoPrevious

\* Values of the decoded parameter besides the names of the root entries:
\* "..", "d/..", "d/n" and "./d"
DecodedRequestNames ==
  FolderRequestNames \cup
    { DotDot, pathJoin(DirD, DotDot), pathJoin(DirD, DirN),
      pathJoin(<< "." >>, DirD) }

\* The request arrives with any of these values; the handler calls stat
GetFolderDecoded ==
  /\ pc = "idle"
  /\ \E name \in DecodedRequestNames :
       request' = [route |-> "folder", name |-> name]
  /\ pc' = "stat"
  /\ UNCHANGED << fsVars, probe, client, statOutcome, previous, exifReads, readdirLog, items, pendingCovers,
                  galleryItems, walkPending, microtasks,
                  allMediaFilesForModal, response, outcomes >>

NextTraversal ==
  \/ GetFolderDecoded
  \/ FolderStatNotDirectory
  \/ FolderStatDirectory
  \/ FolderStatFails
  \/ FolderReaddirDone

SpecTraversal == InitTraversal /\ [][NextTraversal]_vars

\* A normalised path that leaves the media root
OutsideMediaRoot(p) ==
  pathSegments(p) # << >> /\ Head(pathSegments(p)) = DotDot

\* C22: the handler of GET /:potentialFolderName stats, lists and renders
\* only directories inside the media root, whatever the decoded parameter:
\* the directory its stat finds, the directories it calls readdir on, and
\* the files of the page it sends are never outside the media root.
C22_OnlyInsideMediaRoot ==
  request.route = "folder" =>
    /\ statKind(folderFullPath(request.name)) = "dir" =>
         ~OutsideMediaRoot(folderFullPath(request.name))
    /\ \A i \in 1..Len(readdirLog) :
         readdirLog[i].by = "folder" => ~OutsideMediaRoot(readdirLog[i].dir)
    /\ FolderPageSent =>
         \A k \in 1..Len(response.mediaFiles) :
           ~OutsideMediaRoot(response.mediaFiles[k].file)

\* What the code guarantees: a parameter without a ".." segment stays inside
\* the media root.
PlainNamesStayInside ==
  (/\ request.route = "folder"
   /\ \A k \in 1..Len(pathSegments(request.name)) :
        pathSegments(request.name)[k] # DotDot) => C22_OnlyInsideMediaRoot

\* The page of the directory above the media root has been sent
ParentDirectoryRendered ==
  /\ request.route = "folder"
  /\ request.name = DotDot
  /\ FolderPageSent
  /\ \E k \in 1..Len(response.mediaFiles) :
       response.mediaFiles[k].file =
         pathJoin(DotDot, << "i", "c", "o", "n", ".", "j", "p", "g" >>)

(***************************************************************************)
(* The script of the page in the browser: the modal and its navigation.    *)
(* mediaFiles is the list the page was sent with; the script runs one      *)
(* event handler at a time.                                                *)
(***************************************************************************)
DecimalDigits == << "0", "1", "2", "3", "4", "5", "6", "7", "8", "9" >>

\* A number written into the template literal of data-index
RECURSIVE toDecimal(_)
toDecimal(i) ==
  IF i < 0 THEN << "-" >> \o toDecimal(0 - i)
  ELSE IF i < 10 THEN << DecimalDigits[i + 1] >>
  ELSE toDecimal(i \div 10) \o << DecimalDigits[(i % 10) + 1] >>

digitValue(c) == (CHOOSE k \in 1..10 : DecimalDigits[k] = c) - 1

isDigit(c) == \E k \in 1..10 : DecimalDigits[k] = c

RECURSIVE parseDigits(_, _)
parseDigits(s, acc) ==
  IF s = << >> \/ ~isDigit(Head(s)) THEN acc
  ELSE parseDigits(Tail(s), 10 * acc + digitValue(Head(s)))

\* parseInt: an optional sign and the digits that follow; "NaN" without one
parseInt(s) ==
  LET neg  == s # << >> /\ Head(s) = "-"
      body == IF neg THEN Tail(s) ELSE s
  IN  IF body = << >> \/ ~isDigit(Head(body)) THEN "NaN"
      ELSE IF neg THEN 0 - parseDigits(body, 0) ELSE parseDigits(body, 0)

\* The % of JavaScript: the remainder has the sign of the dividend
jsRemainder(a, b) == IF a >= 0 THEN a % b ELSE 0 - ((0 - a) % b)

\* String.prototype.includes
includes(s, sub) ==
  \E i \in 1..(Len(s) - Len(sub) + 1) : SubSeq(s, i, i + Len(sub) - 1) = sub

\* const mediaFiles = JSON.stringify(mediaFilesForModal) of the page loaded
mediaFiles == response.mediaFiles

\* showModal: currentIndex is assigned before the boundary check; inside the
\* bounds the wrapper gets the one element of the file, the caption its
\* caption, and the modal is displayed
showModal(c, index) ==
  IF index < 0 \/ index >= Len(mediaFiles)
  THEN [c EXCEPT !.currentIndex = index]
  ELSE LET file == mediaFiles[index + 1]
       IN  [c EXCEPT !.currentIndex = index,
                     !.shown = << [tag |-> IF \/ includes(file.ext, << "m", "p", "4" >>)
                                              \/ includes(file.ext, << "m", "o", "v" >>)
                                              \/ includes(file.ext, << "w", "e", "b", "m" >>)
                                           THEN "video" ELSE "img",
                                   src |-> << "/" >> \o file.file,
                                   alt |-> file.caption,
                                   caption |-> file.caption] >>,
                     !.display = "block"]

\* The browser loads the page a handler has sent and runs its script
LoadPage ==
  /\ pc = "done"
  /\ response.status = "page"
  /\ ~client.loaded
  /\ client' = [NoClient EXCEPT !.loaded = TRUE, !.last = "load"]
  /\ UNCHANGED << fsVars, probe, exifReads, readdirLog, request, pc, items,
                  pendingCovers, galleryItems, walkPending, microtasks,
                  allMediaFilesForModal, response, statOutcome, previous,
                  outcomes >>

\* A click on a file tile: showModal(parseInt(container.dataset.index))
TileClick ==
  /\ client.loaded
  /\ \E t \in 1..Len(response.tiles) :
       /\ response.tiles[t].kind = "file"
       /\ client' = [showModal(client,
                               parseInt(toDecimal(response.tiles[t].dataIndex)))
                       EXCEPT !.last = "tile", !.from = client.currentIndex]
  /\ UNCHANGED << fsVars, probe, exifReads, readdirLog, request, pc, items,
                  pendingCovers, galleryItems, walkPending, microtasks,
                  allMediaFilesForModal, response, statOutcome, previous,
                  outcomes >>

\* A click on the close button, which is inside the modal
CloseClick ==
  /\ client.loaded
  /\ client.display = "block"
  /\ client' = [client EXCEPT !.display = "none", !.last = "close",
                              !.from = client.currentIndex]
  /\ UNCHANGED << fsVars, probe, exifReads, readdirLog, request, pc, items,
                  pendingCovers, galleryItems, walkPending, microtasks,
                  allMediaFilesForModal, response, statOutcome, previous,
                  outcomes >>

\* showPrev stepping back without adding the length
showPrev_NoOffset ==
  /\ client.loaded
  /\ client.display = "block"
  /\ client' = [showModal(client,
                          jsRemainder(client.currentIndex - 1, Len(mediaFiles)))
                  EXCEPT !.last = "prev", !.from = client.currentIndex]
  /\ UNCHANGED << fsVars, probe, exifReads, readdirLog, request, pc, items,
                  pendingCovers, galleryItems, walkPending, microtasks,
                  allMediaFilesForModal, response, statOutcome, previous,
                  outcomes >>

\* A click on the next button, which is inside the modal
showNext ==
  /\ client.loaded
  /\ client.display = "block"
  /\ client' = [showModal(client,
                          jsRemainder(client.currentIndex + 1, Len(mediaFiles)))
                  EXCEPT !.last = "next", !.from = client.currentIndex]
  /\ UNCHANGED << fsVars, probe, exifReads, readdirLog, request, pc, items,
                  pendingCovers, galleryItems, walkPending, microtasks,
                  allMediaFilesForModal, response, statOutcome, previous,
                  outcomes >>

\* A click on the previous button, which is inside the modal
showPrev ==
  /\ client.loaded
  /\ client.display = "block"
  /\ client' = [showModal(client,
                          jsRemainder(client.currentIndex - 1 + Len(mediaFiles),
                                      Len(mediaFiles)))
                  EXCEPT !.last = "prev", !.from = client.currentIndex]
  /\ UNCHANGED << fsVars, probe, exifReads, readdirLog, request, pc, items,
                  pendingCovers, galleryItems, walkPending, microtasks,
                  allMediaFilesForModal, response, statOutcome, previous,
                  outcomes >>

\* The Escape key: the modal is hidden when it is displayed, and nothing
\* changes otherwise
EscapeKey ==
  /\ client.loaded
  /\ client' = [client EXCEPT
                  !.display = IF client.display = "block" THEN "none" ELSE @,
                  !.last = "escape", !.from = client.currentIndex]
  /\ UNCHANGED << fsVars, probe, exifReads, readdirLog, request, pc, items,
                  pendingCovers, galleryItems, walkPending, microtasks,
                  allMediaFilesForModal, response, statOutcome, previous,
                  outcomes >>

ClientStep ==
  \/ LoadPage
  \/ TileClick
  \/ CloseClick
  \/ showNext
  \/ showPrev
  \/ EscapeKey

NextClient ==
  \/ NextHandlers
  \/ ClientStep

SpecClient == InitWalk /\ [][NextClient]_vars

\* Every file tile of the page carries an index of the list
TileIndicesInRange ==
  \A t \in 1..Len(response.tiles) :
    response.tiles[t].kind = "file" =>
      response.tiles[t].dataIndex \in 0..(Len(mediaFiles) - 1)

\* The modal holds the element and the caption of mediaFiles[currentIndex]
ShowsCurrentItem ==
  client.shown =
    << [tag |-> mediaElementTag(mediaFiles[client.currentIndex + 1].ext),
        src |-> << "/" >> \o mediaFiles[client.currentIndex + 1].file,
        alt |-> mediaFiles[client.currentIndex + 1].caption,
        caption |-> mediaFiles[client.currentIndex + 1].caption] >>

\* C23: in the script of a page with n >= 1 media files whose tiles carry
\* indices in [0, n), whatever next, previous, close, Escape and tile clicks
\* have happened, currentIndex is in [0, n) and a modal that has been opened
\* holds mediaFiles[currentIndex], displayed after a tile click, next or
\* previous; next goes from n-1 to 0 and otherwise one up, previous from 0
\* to n-1 and otherwise one down; previous right after next gives back the
\* index and the item from before the next.
C23_ModalNavigation ==
  /\ []((client.loaded /\ Len(mediaFiles) >= 1 /\ TileIndicesInRange) =>
          /\ client.currentIndex \in 0..(Len(mediaFiles) - 1)
          /\ client.display = "block" => ShowsCurrentItem
          /\ client.shown # << >> => ShowsCurrentItem
          /\ client.last \in {"tile", "next", "prev"} => client.display = "block"
          /\ client.last = "next" =>
               client.currentIndex =
                 (IF client.from = Len(mediaFiles) - 1 THEN 0
                  ELSE client.from + 1)
          /\ client.last = "prev" =>
               client.currentIndex =
                 (IF client.from = 0 THEN Len(mediaFiles) - 1
                  ELSE client.from - 1))
  /\ [][(client.loaded /\ client.last = "next" /\ client' # client
           /\ client'.last = "prev") =>
          (/\ client'.currentIndex = client.from
           /\ client'.shown =
                << [tag |-> mediaElementTag(mediaFiles[client.from + 1].ext),
                    src |-> << "/" >> \o mediaFiles[client.from + 1].file,
                    alt |-> mediaFiles[client.from + 1].caption,
                    caption |-> mediaFiles[client.from + 1].caption] >>)]_vars

\* C23 witness: in a list of three, with the modal opened by a tile,
\* previous has gone from the first item round to the last, which the modal
\* displays
C23_Witness ==
  /\ client.loaded
  /\ Len(mediaFiles) = 3
  /\ client.last = "prev"
  /\ client.from = 0
  /\ client.currentIndex = 2
  /\ client.display = "block"
  /\ ShowsCurrentItem

=============================================================================
